---- MODULE Spec2Model ----
(***************************************************************************)
(* Model of src/src/validators.rs (luhn, ssn_format) and of the two        *)
(* entry points of src/src/lib.rs that expose them (validate_luhn,         *)
(* validate_ssn_format).                                                   *)
(*                                                                         *)
(* A string is a sequence of Unicode scalar values (code points).  Each    *)
(* call owns a frame holding its argument and its locals; a frame moves    *)
(* through the statements of the function it runs, one statement (or one   *)
(* iteration of the checksum fold) per step.                               *)
(***************************************************************************)
EXTENDS Integers, Sequences, FiniteSets, TLC

(***************************************************************************)
(* Bounds of the exploration.                                              *)
(***************************************************************************)
\* longest digit sequence a candidate carries (one past the Luhn gate)
MaxDigits == 20
\* longest run of separator characters woven into one gap
MaxSeps == 1
\* parallel execution contexts calling the validators
NumCallers == 2

(***************************************************************************)
(* Program constants.                                                      *)
(***************************************************************************)
LuhnMinLen == 13
LuhnMaxLen == 19
SsnLen == 9
AreaNeverIssued == 666
AreaReservedFrom == 900

(***************************************************************************)
(* Option<T> and Result<T, E>: None / Err is the empty sequence.           *)
(***************************************************************************)
Some(v) == <<v>>
None == <<>>
IsSome(o) == Len(o) = 1
Unwrap(o) == o[1]

(***************************************************************************)
(* Unsigned 32-bit arithmetic: the exact result, and whether it left       *)
(* 0 .. 2^32 - 1 (2^32 is written 65536 * 65536 by parts, so that the test *)
(* never forms a number wider than the one it tests).  A build with        *)
(* overflow checks panics at an overflow, a build without them goes on     *)
(* with a wrapped value; a frame that overflows stops at "overflowed".     *)
(***************************************************************************)
U32(exact) == [val |-> exact,
               ovf |-> exact < 0 \/ exact \div 65536 >= 65536]

(***************************************************************************)
(* char::is_ascii_digit and char::to_digit.                                *)
(***************************************************************************)
\* variant: the range test starts one code point early, at '/'
is_ascii_digit_from_slash(c) == c >= 47 /\ c <= 57

is_ascii_digit(c) == c >= 48 /\ c <= 57

\* c - '0' and (c | 0x20) - 'a' wrap below zero to values above any radix
to_digit(c, radix) ==
    LET digit == c - 48
        lower == IF (c \div 32) % 2 = 0 THEN c + 32 ELSE c
        alpha == lower - 97 + 10
    IN  IF digit >= 0 /\ digit < 10
        THEN (IF digit < radix THEN Some(digit) ELSE None)
        ELSE IF radix > 10 /\ lower >= 97 /\ alpha < radix THEN Some(alpha)
        ELSE None

(***************************************************************************)
(* UTF-8: bytes of one scalar value, byte length of a string, and the      *)
(* byte-indexed slice s[a..b], which panics (None) when an index is out of *)
(* bounds or not on a character boundary.                                  *)
(***************************************************************************)
Utf8Len(c) == IF c < 128 THEN 1 ELSE IF c < 2048 THEN 2
              ELSE IF c < 65536 THEN 3 ELSE 4

RECURSIVE ByteLen(_)
ByteLen(s) == IF s = <<>> THEN 0 ELSE Utf8Len(Head(s)) + ByteLen(Tail(s))

\* number of characters of s that lie wholly before byte offset n
CharsBefore(s, n) ==
    Cardinality({j \in 1..Len(s) : ByteLen(SubSeq(s, 1, j)) <= n})

IsCharBoundary(s, n) ==
    n >= 0 /\ n <= ByteLen(s) /\ ByteLen(SubSeq(s, 1, CharsBefore(s, n))) = n

Slice(s, a, b) ==
    IF a <= b /\ IsCharBoundary(s, a) /\ IsCharBoundary(s, b)
    THEN Some(SubSeq(s, CharsBefore(s, a) + 1, CharsBefore(s, b)))
    ELSE None

(***************************************************************************)
(* str::parse::<u32>: an optional leading '+', then one or more decimal    *)
(* digits whose value fits 32 bits; anything else is Err.                  *)
(***************************************************************************)
RECURSIVE ParseDigits(_, _)
ParseDigits(s, acc) ==
    IF s = <<>> THEN Some(acc)
    ELSE LET d == to_digit(Head(s), 10)
         IN  IF ~IsSome(d) THEN None
             \* checked_mul(10) then checked_add(d): 4294967295 is the top
             ELSE IF acc > 429496729 \/ (acc = 429496729 /\ Unwrap(d) > 5)
                  THEN None
             ELSE ParseDigits(Tail(s), acc * 10 + Unwrap(d))

parse_u32(s) ==
    IF s = <<>> THEN None
    ELSE IF s = <<43>> \/ s = <<45>> THEN None
    ELSE IF Head(s) = 43 THEN ParseDigits(Tail(s), 0)
    ELSE ParseDigits(s, 0)

(***************************************************************************)
(* luhn: the statements of the function.                                   *)
(***************************************************************************)
RECURSIVE FilterMapToDigit(_)
FilterMapToDigit(cs) ==
    IF cs = <<>> THEN <<>>
    ELSE to_digit(Head(cs), 10) \o FilterMapToDigit(Tail(cs))

\* number.chars().filter(is_ascii_digit).filter_map(to_digit(10)).collect()
LuhnDigits(number) == FilterMapToDigit(SelectSeq(number, is_ascii_digit))

\* variant: both ends of the length gate are exclusive
LuhnGateRejects_exclusive(digits) ==
    Len(digits) <= LuhnMinLen \/ Len(digits) >= LuhnMaxLen

\* digits.len() < 13 || digits.len() > 19
LuhnGateRejects(digits) ==
    Len(digits) < LuhnMinLen \/ Len(digits) > LuhnMaxLen

\* variant: the doubled positions are the even ones
LuhnTerm_parity(i, d) ==
    IF i % 2 = 0
    THEN LET doubled == U32(d * 2)
         IN  IF doubled.val > 9
             THEN [val |-> U32(doubled.val - 9).val,
                   ovf |-> doubled.ovf \/ U32(doubled.val - 9).ovf]
             ELSE doubled
    ELSE [val |-> d, ovf |-> FALSE]

\* variant: 9 is subtracted from every doubled digit, without the test
LuhnTerm_unguarded(i, d) ==
    IF i % 2 = 1
    THEN LET doubled == U32(d * 2)
         IN  [val |-> U32(doubled.val - 9).val,
              ovf |-> doubled.ovf \/ U32(doubled.val - 9).ovf]
    ELSE [val |-> d, ovf |-> FALSE]

\* the closure mapped over digits.iter().rev().enumerate()
LuhnTerm(i, d) ==
    IF i % 2 = 1
    THEN LET doubled == U32(d * 2)
         IN  IF doubled.val > 9
             THEN [val |-> U32(doubled.val - 9).val,
                   ovf |-> doubled.ovf \/ U32(doubled.val - 9).ovf]
             ELSE doubled
    ELSE [val |-> d, ovf |-> FALSE]

\* variant: the sum is tested modulo 5
LuhnSumAccepts_mod5(sum) == sum % 5 = 0

\* sum % 10 == 0
LuhnSumAccepts(sum) == sum % 10 = 0

(***************************************************************************)
(* ssn_format: the statements of the function.                             *)
(***************************************************************************)
\* variant: the characters are collected without the filter
SsnDigits_unfiltered(ssn) == ssn

\* ssn.chars().filter(is_ascii_digit).collect::<String>()
SsnDigits(ssn) == SelectSeq(ssn, is_ascii_digit)

\* variant: only a string that is too long is rejected
SsnGateRejects_long(digits) == ByteLen(digits) > SsnLen

\* digits.len() != 9   (String::len counts bytes)
SsnGateRejects(digits) == ByteLen(digits) # SsnLen

\* variant: the reserved range starts above 900
AreaReserved_above(area) ==
    area = 0 \/ area = AreaNeverIssued \/ area > AreaReservedFrom

\* area == 0 || area == 666 || area >= 900
AreaReserved(area) ==
    area = 0 \/ area = AreaNeverIssued \/ area >= AreaReservedFrom

\* variant: one nonzero field is enough
GroupSerialAccept_or(group, serial) == group > 0 \/ serial > 0

\* group > 0 && serial > 0
GroupSerialAccept(group, serial) == group > 0 /\ serial > 0

(***************************************************************************)
(* Call frames.  pc is the statement the call is at; exit names the return *)
(* statement (or the fault) that ended it.                                 *)
(***************************************************************************)
IdleFrame ==
    [pc |-> "idle", fn |-> "none", arg |-> <<>>, origin |-> <<>>,
     digits |-> <<>>, k |-> 0, sum |-> 0,
     area |-> 0, group |-> 0, serial |-> 0,
     ret |-> FALSE, exit |-> "none"]

Enter(fn, arg) ==
    [IdleFrame EXCEPT !.pc = IF fn = "luhn" THEN "luhn_extract"
                             ELSE "ssn_extract",
                      !.fn = fn, !.arg = arg]

Returned(f, value, site) ==
    [f EXCEPT !.pc = "done", !.ret = value, !.exit = site]

Panicked(f, site) == [f EXCEPT !.pc = "panicked", !.exit = site]

Overflowed(f, site) == [f EXCEPT !.pc = "overflowed", !.exit = site]

Ended(f) == f.pc \in {"idle", "done", "panicked", "overflowed"}

\* luhn, lines 7-11
luhn_extract(f) ==
    [f EXCEPT !.digits = LuhnDigits(f.arg), !.pc = "luhn_gate"]

\* luhn, lines 14-16
luhn_gate(f) ==
    IF LuhnGateRejects(f.digits)
    THEN Returned(f, FALSE, "luhn_length")
    ELSE [f EXCEPT !.pc = "luhn_fold", !.k = 0, !.sum = 0]

\* luhn, lines 18-34: one item of digits.iter().rev().enumerate() is mapped
\* and added to the running sum
luhn_fold(f) ==
    LET d == f.digits[Len(f.digits) - f.k]
        term == LuhnTerm(f.k, d)
        total == U32(f.sum + term.val)
    IN  IF term.ovf \/ total.ovf
        THEN Overflowed(f, "luhn_sum")
        ELSE [f EXCEPT !.sum = total.val, !.k = f.k + 1]

\* luhn, line 36
luhn_verdict(f) == Returned(f, LuhnSumAccepts(f.sum), "luhn_checksum")

\* ssn_format, line 41
ssn_extract(f) ==
    [f EXCEPT !.digits = SsnDigits(f.arg), !.pc = "ssn_gate"]

\* ssn_format, lines 43-45
ssn_gate(f) ==
    IF SsnGateRejects(f.digits)
    THEN Returned(f, FALSE, "ssn_length")
    ELSE [f EXCEPT !.pc = "ssn_area"]

\* ssn_format, lines 48-51
ssn_area(f) ==
    LET field == Slice(f.digits, 0, 3)
    IN  IF ~IsSome(field) THEN Panicked(f, "slice_area")
        ELSE IF ~IsSome(parse_u32(Unwrap(field)))
             THEN Returned(f, FALSE, "area_err")
        ELSE [f EXCEPT !.area = Unwrap(parse_u32(Unwrap(field))),
                       !.pc = "ssn_group"]

\* ssn_format, lines 52-55
ssn_group(f) ==
    LET field == Slice(f.digits, 3, 5)
    IN  IF ~IsSome(field) THEN Panicked(f, "slice_group")
        ELSE IF ~IsSome(parse_u32(Unwrap(field)))
             THEN Returned(f, FALSE, "group_err")
        ELSE [f EXCEPT !.group = Unwrap(parse_u32(Unwrap(field))),
                       !.pc = "ssn_serial"]

\* ssn_format, lines 56-59
ssn_serial(f) ==
    LET field == Slice(f.digits, 5, 9)
    IN  IF ~IsSome(field) THEN Panicked(f, "slice_serial")
        ELSE IF ~IsSome(parse_u32(Unwrap(field)))
             THEN Returned(f, FALSE, "serial_err")
        ELSE [f EXCEPT !.serial = Unwrap(parse_u32(Unwrap(field))),
                       !.pc = "ssn_reserved"]

\* ssn_format, lines 62-64
ssn_reserved(f) ==
    IF AreaReserved(f.area)
    THEN Returned(f, FALSE, "reserved_area")
    ELSE [f EXCEPT !.pc = "ssn_final"]

\* ssn_format, line 67
ssn_final(f) ==
    Returned(f, GroupSerialAccept(f.group, f.serial), "group_serial")

\* the statement a frame executes next
Step(f) ==
    CASE f.pc = "luhn_extract" -> luhn_extract(f)
      [] f.pc = "luhn_gate"    -> luhn_gate(f)
      [] f.pc = "luhn_fold"    -> IF f.k < Len(f.digits) THEN luhn_fold(f)
                                  ELSE luhn_verdict(f)
      [] f.pc = "ssn_extract"  -> ssn_extract(f)
      [] f.pc = "ssn_gate"     -> ssn_gate(f)
      [] f.pc = "ssn_area"     -> ssn_area(f)
      [] f.pc = "ssn_group"    -> ssn_group(f)
      [] f.pc = "ssn_serial"   -> ssn_serial(f)
      [] f.pc = "ssn_reserved" -> ssn_reserved(f)
      [] f.pc = "ssn_final"    -> ssn_final(f)
      [] OTHER                 -> f

RECURSIVE Run(_)
Run(f) == IF Ended(f) THEN f ELSE Run(Step(f))

(***************************************************************************)
(* The two validators as functions of their argument: the frame a call     *)
(* ends in, whether it ended in a fault, and the verdict it returned.      *)
(***************************************************************************)
luhn_faults(number) == Run(Enter("luhn", number)).pc # "done"
luhn(number) == Run(Enter("luhn", number)).ret

ssn_format_faults(ssn) == Run(Enter("ssn_format", ssn)).pc # "done"
ssn_format(ssn) == Run(Enter("ssn_format", ssn)).ret

\* lib.rs: the exported wrappers pass the argument through
validate_luhn(number) == luhn(number)
validate_ssn_format(ssn) == ssn_format(ssn)

(***************************************************************************)
(* Candidate strings.  A candidate is built the way the upstream matcher   *)
(* hands it over: a digit sequence (origin, digit values) written in       *)
(* ASCII, with runs of separator characters woven into some of its gaps.   *)
(* Gap p lies before digit p + 1; gap Len(D) lies after the last digit.    *)
(***************************************************************************)
AsText(D) == [j \in 1..Len(D) |-> 48 + D[j]]

RECURSIVE WeaveFrom(_, _, _, _)
WeaveFrom(D, gaps, run, p) ==
    IF p > Len(D) THEN <<>>
    ELSE (IF p \in gaps THEN run ELSE <<>>)
         \o (IF p < Len(D) THEN <<48 + D[p + 1]>> ELSE <<>>)
         \o WeaveFrom(D, gaps, run, p + 1)

Weave(D, gaps, run) == WeaveFrom(D, gaps, run, 0)

\* space, '-', '/', ':', 'a', U+00E9 (2 bytes), U+0663 ARABIC-INDIC DIGIT
\* THREE (2 bytes), U+FF11 FULLWIDTH DIGIT ONE (3 bytes)
Separators == {32, 45, 47, 58, 97, 233, 1635, 65297}

SepRuns == UNION {[1..n -> Separators] : n \in 1..MaxSeps}

\* L digits: check digit c, digit x at every odd position from the right,
\* digit y at every even position from 2 on
Pattern(L, x, y, c) ==
    [j \in 1..L |-> IF L - j = 0 THEN c
                    ELSE IF (L - j) % 2 = 1 THEN x ELSE y]

LuhnFamily ==
    {Pattern(L, x, y, c) : L \in 0..MaxDigits, x \in 0..9, y \in {0, 9},
                           c \in 0..9}

Decimal(n, width) == [j \in 1..width |-> (n \div (10 ^ (width - j))) % 10]

\* every area, with group and serial at zero and at both ends of their range
SsnFamily ==
    {Decimal(a, 3) \o Decimal(gs[1], 2) \o Decimal(gs[2], 4) :
        a \in 0..999,
        gs \in {<<1, 1>>, <<99, 9999>>, <<45, 6789>>, <<0, 6789>>, <<45, 0>>}}

\* the numbers of the unit tests (validators.rs, lines 77-102)
Visa == <<4,1,1,1, 1,1,1,1, 1,1,1,1, 1,1,1,1>>
Mastercard == <<5,5,0,0, 0,0,0,0, 0,0,0,0, 0,0,0,4>>
WrongCheck == <<4,1,1,1, 1,1,1,1, 1,1,1,1, 1,1,1,2>>
TooShort == <<1,2,3,4,5,6,7,8,9,0>>
Ssn123 == <<1,2,3,4,5,6,7,8,9>>
Ssn8 == <<1,2,3,4,5,6,7,8>>
\* 13-digit numbers: one with a correct check digit, one without
Visa13 == <<4,2,2,2, 2,2,2,2, 2,2,2,2, 2>>
Visa13Wrong == <<4,2,2,2, 2,2,2,2, 2,2,2,2, 3>>
Ssn666 == <<6,6,6,4,5,6,7,8,9>>

TestVectors == {Visa, Mastercard, WrongCheck, TooShort, Ssn123, Ssn8}

PunctBases ==
    TestVectors \cup {<<>>, Visa13, Ssn666,
                      Pattern(19, 9, 9, 9), Pattern(19, 0, 0, 0),
                      Pattern(12, 0, 0, 0), Pattern(MaxDigits, 0, 0, 0)}

\* one gap, the card grouping, the SSN grouping, every gap
GapSets(D) ==
    {{p} : p \in 0..Len(D)}
    \cup {{4, 8, 12} \cap (0..Len(D)), {3, 5} \cap (0..Len(D)), 0..Len(D)}

Plain(D) == [origin |-> D, text |-> AsText(D)]

Punctuated ==
    UNION {{[origin |-> D, text |-> Weave(D, gaps, run)] :
               gaps \in GapSets(D), run \in SepRuns} : D \in PunctBases}

\* "abcd" (validators.rs, line 86)
Letters == [origin |-> <<>>, text |-> <<97, 98, 99, 100>>]

SweepCandidates ==
    {Plain(D) : D \in LuhnFamily \cup SsnFamily \cup TestVectors}
    \cup Punctuated \cup {Letters}

SharedCandidates ==
    {[origin |-> Visa13, text |-> Weave(Visa13, {4, 8, 12}, <<45>>)],
     Plain(Visa13Wrong),
     [origin |-> Ssn123, text |-> Weave(Ssn123, {3, 5}, <<45>>)],
     Plain(Ssn666)}

(***************************************************************************)
(* State: the frame of each execution context, and the workload the host   *)
(* drives: "sweep" is one context validating every candidate of the sweep, *)
(* call after call; "parallel" is NumCallers contexts validating a short   *)
(* shared list, their steps interleaved in any order.                      *)
(***************************************************************************)
VARIABLES frame, workload

vars == <<frame, workload>>

Contexts == 1..NumCallers

Callers == IF workload = "sweep" THEN {1} ELSE Contexts

Candidates == IF workload = "sweep" THEN SweepCandidates ELSE SharedCandidates

Init ==
    /\ workload = "sweep"
    /\ frame = [t \in Contexts |-> IdleFrame]

InitParallel ==
    /\ workload = "parallel"
    /\ frame = [t \in Contexts |-> IdleFrame]

\* variant: the running sum lives in one static slot (context 1's) that every
\* call reads
Exec_static(t) == Step([frame[t] EXCEPT !.sum = frame[1].sum])

\* what the statement at pc, executed by context t, leaves in t's frame
Exec(t) == Step(frame[t])

At(t, pc) == t \in Callers /\ frame[t].pc = pc

\* lib.rs, validate_luhn: the call enters luhn with the caller's string
CallLuhn(t) ==
    /\ At(t, "idle")
    /\ \E c \in Candidates :
          frame' = [frame EXCEPT
                      ![t] = [Enter("luhn", c.text) EXCEPT !.origin = c.origin]]
    /\ UNCHANGED workload

\* lib.rs, validate_ssn_format
CallSsnFormat(t) ==
    /\ At(t, "idle")
    /\ \E c \in Candidates :
          frame' = [frame EXCEPT
                      ![t] = [Enter("ssn_format", c.text)
                                 EXCEPT !.origin = c.origin]]
    /\ UNCHANGED workload

LuhnExtract(t) ==
    /\ At(t, "luhn_extract")
    /\ frame' = [frame EXCEPT ![t] = Exec(t)]
    /\ UNCHANGED workload

LuhnGate(t) ==
    /\ At(t, "luhn_gate")
    /\ frame' = [frame EXCEPT ![t] = Exec(t)]
    /\ UNCHANGED workload

LuhnFold(t) ==
    /\ At(t, "luhn_fold") /\ frame[t].k < Len(frame[t].digits)
    /\ frame' = [frame EXCEPT ![t] = Exec(t)]
    /\ UNCHANGED workload

LuhnVerdict(t) ==
    /\ At(t, "luhn_fold") /\ frame[t].k >= Len(frame[t].digits)
    /\ frame' = [frame EXCEPT ![t] = Exec(t)]
    /\ UNCHANGED workload

SsnExtract(t) ==
    /\ At(t, "ssn_extract")
    /\ frame' = [frame EXCEPT ![t] = Exec(t)]
    /\ UNCHANGED workload

SsnGate(t) ==
    /\ At(t, "ssn_gate")
    /\ frame' = [frame EXCEPT ![t] = Exec(t)]
    /\ UNCHANGED workload

SsnArea(t) ==
    /\ At(t, "ssn_area")
    /\ frame' = [frame EXCEPT ![t] = Exec(t)]
    /\ UNCHANGED workload

SsnGroup(t) ==
    /\ At(t, "ssn_group")
    /\ frame' = [frame EXCEPT ![t] = Exec(t)]
    /\ UNCHANGED workload

SsnSerial(t) ==
    /\ At(t, "ssn_serial")
    /\ frame' = [frame EXCEPT ![t] = Exec(t)]
    /\ UNCHANGED workload

SsnReserved(t) ==
    /\ At(t, "ssn_reserved")
    /\ frame' = [frame EXCEPT ![t] = Exec(t)]
    /\ UNCHANGED workload

SsnFinal(t) ==
    /\ At(t, "ssn_final")
    /\ frame' = [frame EXCEPT ![t] = Exec(t)]
    /\ UNCHANGED workload

\* the verdict is handed to the caller and the frame, with every local, is
\* dropped
Return(t) ==
    /\ At(t, "done")
    /\ frame' = [frame EXCEPT ![t] = IdleFrame]
    /\ UNCHANGED workload

Advance(t) ==
    \/ LuhnExtract(t) \/ LuhnGate(t) \/ LuhnFold(t) \/ LuhnVerdict(t)
    \/ SsnExtract(t) \/ SsnGate(t) \/ SsnArea(t) \/ SsnGroup(t)
    \/ SsnSerial(t) \/ SsnReserved(t) \/ SsnFinal(t)

Next ==
    \E t \in Contexts :
        \/ CallLuhn(t)
        \/ CallSsnFormat(t)
        \/ LuhnExtract(t)
        \/ LuhnGate(t)
        \/ LuhnFold(t)
        \/ LuhnVerdict(t)
        \/ SsnExtract(t)
        \/ SsnGate(t)
        \/ SsnArea(t)
        \/ SsnGroup(t)
        \/ SsnSerial(t)
        \/ SsnReserved(t)
        \/ SsnFinal(t)
        \/ Return(t)

Spec == Init /\ [][Next]_vars

SpecParallel == InitParallel /\ [][Next]_vars

(***************************************************************************)
(* Reference readings of a digit sequence D (digit values, left to right), *)
(* as the specification words them.                                        *)
(***************************************************************************)
\* the digit at position p counted from the rightmost digit, position 0
DigitAt(D, p) == D[Len(D) - p]

RefTransformed(D, p) ==
    IF p % 2 = 0 THEN DigitAt(D, p)
    ELSE IF 2 * DigitAt(D, p) <= 9 THEN 2 * DigitAt(D, p)
    ELSE 2 * DigitAt(D, p) - 9

RECURSIVE RefLuhnSumBelow(_, _)
RefLuhnSumBelow(D, n) ==
    IF n = 0 THEN 0 ELSE RefLuhnSumBelow(D, n - 1) + RefTransformed(D, n - 1)

RefLuhnSum(D) == RefLuhnSumBelow(D, Len(D))

RefLuhnValid(D) ==
    Len(D) >= 13 /\ Len(D) <= 19 /\ RefLuhnSum(D) % 10 = 0

\* digits from..to of D (1-based, inclusive) read as a decimal number
RECURSIVE RefNumber(_, _, _)
RefNumber(D, from, to) ==
    IF to < from THEN 0 ELSE 10 * RefNumber(D, from, to - 1) + D[to]

RefArea(D) == RefNumber(D, 1, 3)
RefGroup(D) == RefNumber(D, 4, 5)
RefSerial(D) == RefNumber(D, 6, 9)

RefSsnValid(D) ==
    /\ Len(D) = 9
    /\ RefArea(D) # 0 /\ RefArea(D) # 666 /\ RefArea(D) < 900
    /\ RefGroup(D) > 0
    /\ RefSerial(D) > 0

DoneIn(t, fn) == frame[t].pc = "done" /\ frame[t].fn = fn

Formatted(t) == frame[t].arg # AsText(frame[t].origin)

(***************************************************************************)
(* C1.  luhn returns true exactly when the digits D extracted from its     *)
(* input number 13 to 19 and the Luhn sum of D (positions counted from the *)
(* right, odd positions doubled and reduced by 9 above 9) is divisible by  *)
(* 10.                                                                     *)
(***************************************************************************)
C1_LuhnContract ==
    \A t \in Contexts :
        DoneIn(t, "luhn") => (frame[t].ret <=> RefLuhnValid(frame[t].origin))

C1_Witness ==
    \E t \in Contexts :
        /\ DoneIn(t, "luhn") /\ frame[t].ret
        /\ Formatted(t) /\ Len(frame[t].origin) = 16

(***************************************************************************)
(* C2.  ssn_format returns true exactly when the extracted digits number   *)
(* 9, the area is not 0, not 666 and below 900, and group and serial are   *)
(* both above 0.                                                           *)
(***************************************************************************)
C2_SsnContract ==
    \A t \in Contexts :
        DoneIn(t, "ssn_format") =>
            (frame[t].ret <=> RefSsnValid(frame[t].origin))

C2_Witness ==
    \E t \in Contexts :
        /\ DoneIn(t, "ssn_format") /\ frame[t].ret
        /\ RefArea(frame[t].origin) = 899
        /\ RefGroup(frame[t].origin) = 99
        /\ RefSerial(frame[t].origin) = 9999

(***************************************************************************)
(* C3.  Punctuation invariance: a call on a string made from the digit     *)
(* sequence D by weaving non-digit characters into it returns what the     *)
(* same validator returns on D alone.                                      *)
(***************************************************************************)
C3_PunctuationInvariance ==
    \A t \in Contexts :
        /\ DoneIn(t, "luhn") =>
              frame[t].ret = luhn(AsText(frame[t].origin))
        /\ DoneIn(t, "ssn_format") =>
              frame[t].ret = ssn_format(AsText(frame[t].origin))

C3_Witness ==
    \E t \in Contexts :
        /\ DoneIn(t, "ssn_format") /\ frame[t].ret
        /\ Formatted(t)
        /\ \E j \in 1..Len(frame[t].arg) : frame[t].arg[j] > 127

(***************************************************************************)
(* C4.  Totality: no call ever faults, a call on a malformed input (too    *)
(* few or too many digits, none at all) returns false, and every call      *)
(* terminates: while it runs it always has a next statement, and each      *)
(* statement lowers a bound on the statements left.                        *)
(***************************************************************************)
Malformed(f) ==
    IF f.fn = "luhn" THEN Len(f.origin) < 13 \/ Len(f.origin) > 19
    ELSE Len(f.origin) # 9

C4_NoFault ==
    \A t \in Contexts :
        /\ frame[t].pc \notin {"panicked", "overflowed"}
        /\ frame[t].pc = "done" =>
              /\ frame[t].ret \in BOOLEAN
              /\ Malformed(frame[t]) => frame[t].ret = FALSE

\* the statements a frame can still execute: at most its input's length
\* and a constant
Remaining(f) ==
    CASE f.pc = "luhn_extract" -> Len(f.arg) + 3
      [] f.pc = "luhn_gate"    -> Len(f.digits) + 2
      [] f.pc = "luhn_fold"    -> Len(f.digits) - f.k + 1
      [] f.pc = "ssn_extract"  -> 7
      [] f.pc = "ssn_gate"     -> 6
      [] f.pc = "ssn_area"     -> 5
      [] f.pc = "ssn_group"    -> 4
      [] f.pc = "ssn_serial"   -> 3
      [] f.pc = "ssn_reserved" -> 2
      [] f.pc = "ssn_final"    -> 1
      [] OTHER                 -> 0

\* a call that has not ended has a statement to execute, one that moves it
C4_Progress ==
    \A t \in Callers :
        ~Ended(frame[t]) =>
            /\ Step(frame[t]) # frame[t]
            /\ Remaining(frame[t]) > 0

\* every statement of a running call brings it nearer to its return
C4_Decreases ==
    \A t \in Contexts :
        \/ frame'[t] = frame[t]
        \/ frame[t].pc \in {"idle", "done"}
        \/ /\ Remaining(frame'[t]) < Remaining(frame[t])
           /\ Remaining(frame'[t]) >= 0

C4_Totality ==
    /\ [](C4_NoFault /\ C4_Progress)
    /\ [][C4_Decreases]_vars

C4_Witness ==
    \E t \in Contexts :
        /\ DoneIn(t, "ssn_format") /\ ~frame[t].ret
        /\ frame[t].origin = <<>> /\ Len(frame[t].arg) > 0
        /\ \A j \in 1..Len(frame[t].arg) : frame[t].arg[j] > 127

(***************************************************************************)
(* C5.  Luhn length boundary: with fewer than 13 or more than 19 digits    *)
(* luhn returns false whatever the sum; with exactly 13 or exactly 19 the  *)
(* verdict is the checksum test.                                           *)
(***************************************************************************)
C5_LuhnBoundary ==
    \A t \in Contexts :
        DoneIn(t, "luhn") =>
            LET D == frame[t].origin
            IN  /\ (Len(D) < 13 \/ Len(D) > 19) => ~frame[t].ret
                /\ Len(D) \in {13, 19} =>
                      (frame[t].ret <=> RefLuhnSum(D) % 10 = 0)

\* a 20-digit number whose sum is divisible by 10 is rejected
C5_Witness ==
    \E t \in Contexts :
        /\ DoneIn(t, "luhn") /\ ~frame[t].ret
        /\ Len(frame[t].origin) = 20
        /\ RefLuhnSum(frame[t].origin) % 10 = 0
        /\ RefLuhnSum(frame[t].origin) > 0

\* the other cases of the boundary
C5_Reach12 ==
    \E t \in Contexts :
        /\ DoneIn(t, "luhn") /\ ~frame[t].ret
        /\ Len(frame[t].origin) = 12
        /\ RefLuhnSum(frame[t].origin) % 10 = 0
        /\ RefLuhnSum(frame[t].origin) > 0

C5_Reach13True ==
    \E t \in Contexts :
        DoneIn(t, "luhn") /\ frame[t].ret /\ Len(frame[t].origin) = 13

C5_Reach13False ==
    \E t \in Contexts :
        DoneIn(t, "luhn") /\ ~frame[t].ret /\ Len(frame[t].origin) = 13

C5_Reach19True ==
    \E t \in Contexts :
        DoneIn(t, "luhn") /\ frame[t].ret /\ Len(frame[t].origin) = 19

C5_Reach19False ==
    \E t \in Contexts :
        DoneIn(t, "luhn") /\ ~frame[t].ret /\ Len(frame[t].origin) = 19

(***************************************************************************)
(* C6.  Area boundary: for 9 digits with group in 1..99 and serial in      *)
(* 1..9999, ssn_format returns true for every area in 1..665 and 667..899  *)
(* and false for area 0, 666 and 900..999.                                 *)
(***************************************************************************)
C6_AreaBoundary ==
    \A t \in Contexts :
        LET D == frame[t].origin
        IN  (/\ DoneIn(t, "ssn_format") /\ Len(D) = 9
             /\ RefGroup(D) \in 1..99 /\ RefSerial(D) \in 1..9999)
            => /\ RefArea(D) \in (1..665) \cup (667..899) => frame[t].ret
               /\ RefArea(D) \in {0, 666} \cup (900..999) => ~frame[t].ret

C6_Witness ==
    \E t \in Contexts :
        /\ DoneIn(t, "ssn_format") /\ ~frame[t].ret
        /\ Len(frame[t].origin) = 9
        /\ RefArea(frame[t].origin) = 900
        /\ RefGroup(frame[t].origin) = 1
        /\ RefSerial(frame[t].origin) = 1

(***************************************************************************)
(* C7.  Purity: however the calls of the parallel contexts interleave and  *)
(* whatever calls came before, the verdict of a call is the validator's    *)
(* value on that call's own argument, so two calls of the same validator   *)
(* on the same argument agree; an idle context holds nothing of the calls  *)
(* it has made.                                                            *)
(***************************************************************************)
C7_Purity ==
    /\ \A t \in Contexts :
          /\ DoneIn(t, "luhn") => frame[t].ret = luhn(frame[t].arg)
          /\ DoneIn(t, "ssn_format") => frame[t].ret = ssn_format(frame[t].arg)
          /\ frame[t].pc = "idle" => frame[t] = IdleFrame
    /\ \A t, u \in Contexts :
          (/\ frame[t].pc = "done" /\ frame[u].pc = "done"
           /\ frame[t].fn = frame[u].fn /\ frame[t].arg = frame[u].arg)
          => frame[t].ret = frame[u].ret

\* two contexts have both finished luhn on the same string, accepted
C7_Witness ==
    \E t, u \in Contexts :
        /\ t # u
        /\ DoneIn(t, "luhn") /\ DoneIn(u, "luhn")
        /\ frame[t].arg = frame[u].arg
        /\ frame[t].ret

(***************************************************************************)
(* C8.  No overflow in luhn: past the length gate every transformed digit  *)
(* is in 0..9, the subtraction of 9 never goes below zero, and the running *)
(* sum never exceeds 9 * 19 = 171.                                         *)
(***************************************************************************)
C8_NoOverflow ==
    \A t \in Contexts :
        /\ frame[t].pc # "overflowed"
        /\ frame[t].pc = "luhn_fold" =>
              /\ frame[t].sum >= 0
              /\ frame[t].sum <= 9 * frame[t].k
              /\ frame[t].sum <= 171
              /\ frame[t].k < Len(frame[t].digits) =>
                    LET term == LuhnTerm(frame[t].k, DigitAt(frame[t].digits,
                                                            frame[t].k))
                    IN  /\ ~term.ovf
                        /\ term.val \in 0..9
                        /\ ~U32(frame[t].sum + term.val).ovf

\* the fold has consumed nineteen 9s
C8_Witness ==
    \E t \in Contexts :
        /\ frame[t].pc = "luhn_fold"
        /\ frame[t].k = 19
        /\ frame[t].sum = 171

(***************************************************************************)
(* C9.  Field segmentation cannot fail: past the length gate of ssn_format *)
(* digits holds exactly 9 one-byte ASCII digits, the three slices are in   *)
(* bounds and on character boundaries, every parse succeeds with area <=   *)
(* 999, group <= 99 and serial <= 9999, and no call leaves through a       *)
(* parse-failure return.                                                   *)
(***************************************************************************)
PastSsnGate(f) ==
    /\ f.fn = "ssn_format"
    /\ \/ f.pc \in {"ssn_area", "ssn_group", "ssn_serial", "ssn_reserved",
                    "ssn_final", "panicked"}
       \/ f.pc = "done" /\ f.exit # "ssn_length"

FieldParses(s, a, b, top) ==
    /\ IsSome(Slice(s, a, b))
    /\ IsSome(parse_u32(Unwrap(Slice(s, a, b))))
    /\ Unwrap(parse_u32(Unwrap(Slice(s, a, b)))) <= top

C9_Segmentation ==
    \A t \in Contexts :
        /\ frame[t].exit \notin {"area_err", "group_err", "serial_err",
                                 "slice_area", "slice_group", "slice_serial"}
        /\ PastSsnGate(frame[t]) =>
              /\ Len(frame[t].digits) = 9
              /\ \A j \in 1..Len(frame[t].digits) :
                    /\ frame[t].digits[j] \in 48..57
                    /\ Utf8Len(frame[t].digits[j]) = 1
              /\ FieldParses(frame[t].digits, 0, 3, 999)
              /\ FieldParses(frame[t].digits, 3, 5, 99)
              /\ FieldParses(frame[t].digits, 5, 9, 9999)
              /\ frame[t].area <= 999
              /\ frame[t].group <= 99
              /\ frame[t].serial <= 9999

\* all three fields parsed, each at the top of its range
C9_Witness ==
    \E t \in Contexts :
        /\ frame[t].pc = "ssn_reserved"
        /\ frame[t].area = 999
        /\ frame[t].group = 99
        /\ frame[t].serial = 9999

(***************************************************************************)
(* C10.  Check digit: for a digit sequence P of 12 to 18 digits exactly    *)
(* one digit c makes luhn accept P followed by c; so changing the          *)
(* rightmost digit of an accepted number gives a rejected one.             *)
(***************************************************************************)
Front(D) == SubSeq(D, 1, Len(D) - 1)

AcceptedCheckDigits(P) == {c \in 0..9 : luhn(AsText(P \o <<c>>))}

C10_CheckDigit ==
    \A t \in Contexts :
        (DoneIn(t, "luhn") /\ Len(frame[t].origin) \in 13..19) =>
            LET D == frame[t].origin
            IN  /\ Cardinality(AcceptedCheckDigits(Front(D))) = 1
                /\ frame[t].ret => AcceptedCheckDigits(Front(D)) = {D[Len(D)]}
                /\ D[Len(D)] \in AcceptedCheckDigits(Front(D)) => frame[t].ret

C10_Witness ==
    \E t \in Contexts :
        /\ DoneIn(t, "luhn") /\ frame[t].ret
        /\ Len(frame[t].origin) = 18 + 1
        /\ frame[t].origin[Len(frame[t].origin)] # 0

====
